---------------------------- MODULE Spec2Model ----------------------------
(***************************************************************************)
(* Model of alexdzyoba/sys: block-device discovery from sysfs              *)
(* (NewDevice / discoverDeviceType / NewDevicesFromPaths / ListDevices),   *)
(* the DiskSlice sort.Interface and GetAttributes (blkid output parsing).  *)
(*                                                                         *)
(* Strings are sequences of one-character strings.  A uint64 is a tuple of *)
(* four 16-bit limbs, least significant first, so that the 64-bit width of *)
(* Device.Size is kept exactly.                                            *)
(***************************************************************************)
EXTENDS Integers, Sequences, FiniteSets, TLC

\* ------------------------------------------------------------------------
\* Bounds of the model
\* ------------------------------------------------------------------------
MaxEnvSteps == 2

MaxPaths == 2

MaxLines == 3

MaxLen == 7

\* ------------------------------------------------------------------------
\* Constants of the program
\* ------------------------------------------------------------------------
sysfsBlockRoot == <<"/","s","y","s","/","b","l","o","c","k">>

sectorSizeBytes == 512

TypeUnknown == "TypeUnknown"

TypeDisk == "TypeDisk"

TypeRAID == "TypeRAID"

TypeDeviceMapper == "TypeDeviceMapper"

attributeUUIDKey == <<"U","U","I","D">>

attributeTypeKey == <<"T","Y","P","E">>

attributeLabelKey == <<"L","A","B","E","L">>

\* ------------------------------------------------------------------------
\* uint64 as four 16-bit limbs (little endian)
\* ------------------------------------------------------------------------
LimbBase == 65536

U64Zero == <<0, 0, 0, 0>>

\* n * m + c over the four limbs; the result keeps the carry out of bit 63
\* in the field "carry" (0 iff the exact result fits in 64 bits).
RECURSIVE MulAddFrom(_, _, _, _)
MulAddFrom(n, m, c, i) ==
    IF i > 4 THEN [limbs |-> <<>>, carry |-> c]
    ELSE LET t == n[i] * m + c
             rest == MulAddFrom(n, m, t \div LimbBase, i + 1)
         IN  [limbs |-> <<t % LimbBase>> \o rest.limbs, carry |-> rest.carry]

MulAdd(n, m, c) == MulAddFrom(n, m, c, 1)

\* uint64 multiplication by a small constant: wraps modulo 2^64
U64MulWrap(n, m) == MulAdd(n, m, 0).limbs

\* size < other, as Go compares two uint64
RECURSIVE U64LessFrom(_, _, _)
U64LessFrom(a, b, i) ==
    IF i < 1 THEN FALSE
    ELSE IF a[i] # b[i] THEN a[i] < b[i]
    ELSE U64LessFrom(a, b, i - 1)

U64Less(a, b) == U64LessFrom(a, b, 4)

\* ------------------------------------------------------------------------
\* strings.Trim, strconv.ParseUint
\* ------------------------------------------------------------------------
Digits == <<"0","1","2","3","4","5","6","7","8","9">>

IsDigit(c) == \E d \in 1..10 : Digits[d] = c

DigitVal(c) == (CHOOSE d \in 1..10 : Digits[d] = c) - 1

RECURSIVE TrimLeft(_, _)
TrimLeft(s, c) ==
    IF s # <<>> /\ Head(s) = c THEN TrimLeft(Tail(s), c) ELSE s

RECURSIVE TrimRight(_, _)
TrimRight(s, c) ==
    IF s # <<>> /\ s[Len(s)] = c THEN TrimRight(SubSeq(s, 1, Len(s) - 1), c) ELSE s

\* strings.Trim(s, "\n"): strips every leading and trailing newline
Trim(s, c) == TrimRight(TrimLeft(s, c), c)

\* strconv.ParseUint(s, 10, 64): the value, or ErrSyntax / ErrRange
RECURSIVE ParseUintFrom(_, _, _)
ParseUintFrom(s, i, n) ==
    IF i > Len(s) THEN [err |-> "nil", val |-> n]
    ELSE IF ~IsDigit(s[i]) THEN [err |-> "ErrSyntax", val |-> U64Zero]
    ELSE LET r == MulAdd(n, 10, DigitVal(s[i]))
         IN  IF r.carry # 0 THEN [err |-> "ErrRange", val |-> U64Zero]
             ELSE ParseUintFrom(s, i + 1, r.limbs)

ParseUint(s) ==
    IF s = <<>> THEN [err |-> "ErrSyntax", val |-> U64Zero]
    ELSE ParseUintFrom(s, 1, U64Zero)

\* ------------------------------------------------------------------------
\* path.Base, path.Clean, path.Join
\* ------------------------------------------------------------------------
RECURSIVE LastSlash(_, _)
LastSlash(p, i) ==
    IF i < 1 THEN 0 ELSE IF p[i] = "/" THEN i ELSE LastSlash(p, i - 1)

Base(p) ==
    IF p = <<>> THEN <<".">>
    ELSE LET q == TrimRight(p, "/")
             r == SubSeq(q, LastSlash(q, Len(q)) + 1, Len(q))
         IN  IF r = <<>> THEN <<"/">> ELSE r

\* the pieces of s between occurrences of the character sep, empty pieces
\* included (strings.Split; also the elements of a path)
RECURSIVE SplitFrom(_, _, _, _)
SplitFrom(s, sep, i, cur) ==
    IF i > Len(s) THEN <<cur>>
    ELSE IF s[i] = sep THEN <<cur>> \o SplitFrom(s, sep, i + 1, <<>>)
    ELSE SplitFrom(s, sep, i + 1, Append(cur, s[i]))

Split(s, sep) == SplitFrom(s, sep, 1, <<>>)

\* strings.SplitN(s, sep, 2): cut at the first sep, one piece if there is none
SplitN2(s, sep) ==
    IF \E k \in 1..Len(s) : s[k] = sep
    THEN LET k == CHOOSE k \in 1..Len(s) : s[k] = sep /\ \A m \in 1..(k - 1) : s[m] # sep
         IN  <<SubSeq(s, 1, k - 1), SubSeq(s, k + 1, Len(s))>>
    ELSE <<s>>

\* path.Clean of a rooted path: drops empty and "." elements, ".." removes
\* the element before it (and is dropped at the root)
RECURSIVE CleanElems(_, _, _)
CleanElems(elems, i, stack) ==
    IF i > Len(elems) THEN stack
    ELSE IF elems[i] = <<>> \/ elems[i] = <<".">> THEN CleanElems(elems, i + 1, stack)
    ELSE IF elems[i] = <<".", ".">>
         THEN CleanElems(elems, i + 1,
                         IF stack = <<>> THEN stack ELSE SubSeq(stack, 1, Len(stack) - 1))
    ELSE CleanElems(elems, i + 1, Append(stack, elems[i]))

RECURSIVE JoinElems(_, _)
JoinElems(stack, i) ==
    IF i > Len(stack) THEN <<>> ELSE <<"/">> \o stack[i] \o JoinElems(stack, i + 1)

Clean(p) ==
    LET stack == CleanElems(Split(p, "/"), 1, <<>>)
    IN  IF stack = <<>> THEN <<"/">> ELSE JoinElems(stack, 1)

\* path.Join(a, b) for a rooted a
Join(a, b) == Clean(a \o <<"/">> \o b)

\* ------------------------------------------------------------------------
\* The sysfs tree
\* ------------------------------------------------------------------------
sda == <<"s","d","a">>

sdb == <<"s","d","b">>

DevNames == {sda, sdb}

sizeName == <<"s","i","z","e">>

mdName == <<"m","d">>

dmName == <<"d","m">>

deviceName == <<"d","e","v","i","c","e">>

\* contents of /sys/block/<name>/size found in the initial tree
SizeContents ==
    { <<"0","\n">>,
      <<"8","\n">>,
      <<"2","0","4","8">>,
      <<"3","6","0","2","8","7","9","7","0","1","8","9","6","3","9","6","7","\n">>,
      <<"3","6","0","2","8","7","9","7","0","1","8","9","6","3","9","6","8","\n">>,
      <<"1","8","4","4","6","7","4","4","0","7","3","7","0","9","5","5","1","6","1","5","\n">>,
      <<"1","8","4","4","6","7","4","4","0","7","3","7","0","9","5","5","1","6","1","6","\n">>,
      <<"1","2","a","\n">>,
      <<"\n">> }

\* contents a concurrent actor writes (a resize)
EnvSizeContents == { <<"8","\n">>, <<"1","6","\n">> }

NoEntry == [present |-> FALSE, size |-> <<>>, md |-> FALSE, dm |-> FALSE, device |-> FALSE]

Entries(contents) ==
    [present : {TRUE}, size : contents, md : BOOLEAN, dm : BOOLEAN, device : BOOLEAN]

\* errors a system call can fail with that are not explained by absence
Faults == {"EACCES"}

\* os.IsExist where os.IsNotExist was meant
IsExist(err) == err = "EEXIST"

IsNotExist(err) == err = "ENOENT"

\* the entry of the tree a path <root>/<name> names
EntryAt(t, p) ==
    IF \E n \in DevNames : p = Join(sysfsBlockRoot, n) /\ t[n].present
    THEN t[CHOOSE n \in DevNames : p = Join(sysfsBlockRoot, n)]
    ELSE NoEntry

ChildPresent(e, child) ==
    /\ e.present
    /\ \/ child = sizeName
       \/ child = mdName /\ e.md
       \/ child = dmName /\ e.dm
       \/ child = deviceName /\ e.device

IsDir(t, p) ==
    \/ p \in {<<"/">>, <<"/","s","y","s">>, sysfsBlockRoot}
    \/ EntryAt(t, p).present

PathExists(t, p) ==
    \/ IsDir(t, p)
    \/ \E n \in DevNames, c \in {sizeName, mdName, dmName, deviceName} :
          /\ p = Join(Join(sysfsBlockRoot, n), c)
          /\ ChildPresent(t[n], c)

\* os.Stat: the error it returns ("nil" for none)
Stat(t, p, fault) ==
    IF fault # "nil" THEN fault
    ELSE IF PathExists(t, p) THEN "nil" ELSE "ENOENT"

\* ioutil.ReadFile
ReadFile(t, p, fault) ==
    IF fault # "nil" THEN [err |-> fault, content |-> <<>>]
    ELSE IF IsDir(t, p) THEN [err |-> "EISDIR", content |-> <<>>]
    ELSE IF \E n \in DevNames : p = Join(Join(sysfsBlockRoot, n), sizeName) /\ t[n].present
         THEN [err |-> "nil",
               content |-> t[CHOOSE n \in DevNames :
                               p = Join(Join(sysfsBlockRoot, n), sizeName)].size]
    ELSE [err |-> "ENOENT", content |-> <<>>]

\* exists that reports an undetermined path as absent
existsSwallowsError(statErr) ==
    IF statErr = "nil" THEN [b |-> TRUE, err |-> "nil"] ELSE [b |-> FALSE, err |-> "nil"]

\* exists(path): (bool, error) from the result of os.Stat
exists(statErr) ==
    IF statErr = "nil" THEN [b |-> TRUE, err |-> "nil"]
    ELSE IF IsNotExist(statErr) THEN [b |-> FALSE, err |-> "nil"]
    ELSE [b |-> TRUE, err |-> statErr]

\* ------------------------------------------------------------------------
\* State
\* ------------------------------------------------------------------------
VARIABLES
    tree,       \* the sysfs tree: DevNames -> entry
    call,       \* the entry point called: "NewDevicesFromPaths" or "ListDevices"
    paths,      \* the argument of NewDevicesFromPaths
    pc,         \* position of the caller
    idx,        \* position of the range loop in paths (1-based)
    ds,         \* the slice NewDevicesFromPaths builds
    name,       \* NewDevice: name
    sysfsPath,  \* NewDevice: sysfsPath
    size,       \* NewDevice: size
    ret,        \* what the running NewDevice call returned
    out,        \* what NewDevicesFromPaths / ListDevices returned
    trace,      \* history: the reads of the running NewDevice call and the
                \* changes another actor made to its entry meanwhile
    envSteps,   \* number of changes made by other actors
    output,     \* GetAttributes: stdout of blkid
    blkidErr,   \* GetAttributes: error of blkid.Output()
    attrsRet,   \* GetAttributes: its outcome
    disks,      \* a DiskSlice
    input,      \* the DiskSlice before it was sorted
    sortedBy    \* the sort that was run on disks ("none" before)

devVars == <<tree, call, paths, pc, idx, ds, name, sysfsPath, size, ret, out, trace, envSteps>>

attrVars == <<output, blkidErr, attrsRet>>

sortVars == <<disks, input, sortedBy>>

vars == <<devVars, attrVars, sortVars>>

NilDevice == [Name |-> <<>>, Size |-> U64Zero, Type |-> "nil"]

NoRet == [dev |-> NilDevice, err |-> <<>>]

NoOut == [ds |-> <<>>, isNil |-> TRUE, err |-> <<>>]

Event(ev, res) == [ev |-> ev, res |-> res, snap |-> EntryAt(tree, sysfsPath)]

\* ------------------------------------------------------------------------
\* NewDevice, one action per system call
\* ------------------------------------------------------------------------
\* return nil, err
ReturnErr(err) ==
    /\ ret' = [dev |-> NilDevice, err |-> err]
    /\ pc' = "ret"

\* return &Device{name, size, typ}, nil
ReturnDevice(typ) ==
    /\ ret' = [dev |-> [Name |-> name, Size |-> size, Type |-> typ], err |-> <<>>]
    /\ pc' = "ret"

\* os.Stat(sysfsPath); only os.IsNotExist(err) returns
StatEntry ==
    /\ pc = "stat"
    /\ \E fault \in {"nil"} \cup Faults :
          LET err == Stat(tree, sysfsPath, fault)
          IN  /\ trace' = Append(trace, Event("stat", err))
              /\ IF IsNotExist(err)
                 THEN ReturnErr(<<"device does not exist">>)
                 ELSE pc' = "read" /\ ret' = ret
    /\ UNCHANGED <<tree, call, paths, idx, ds, name, sysfsPath, size, out, envSteps>>

\* ioutil.ReadFile(sizeFilePath), strings.Trim, strconv.ParseUint, * 512
ReadSize ==
    /\ pc = "read"
    /\ \E fault \in {"nil"} \cup Faults :
          LET sizeFilePath == Join(sysfsPath, sizeName)
              rd == ReadFile(tree, sizeFilePath, fault)
              sizeString == Trim(rd.content, "\n")
              parsed == ParseUint(sizeString)
          IN  /\ trace' = Append(trace, Event("size", rd.err))
              /\ IF rd.err # "nil"
                 THEN ReturnErr(<<"failed to read for size", rd.err>>) /\ size' = size
                 ELSE IF parsed.err # "nil"
                 THEN ReturnErr(<<"failed to parse device size", parsed.err>>) /\ size' = size
                 ELSE /\ size' = U64MulWrap(parsed.val, sectorSizeBytes)
                      /\ pc' = "md"
                      /\ ret' = ret
    /\ UNCHANGED <<tree, call, paths, idx, ds, name, sysfsPath, out, envSteps>>

\* discoverDeviceType: one marker check, exists(path.Join(sysfsPath, marker))
CheckMarker(at, marker, typ, next) ==
    /\ pc = at
    /\ \E fault \in {"nil"} \cup Faults :
          LET statErr == Stat(tree, Join(sysfsPath, marker), fault)
              ex == exists(statErr)
          IN  /\ trace' = Append(trace, Event(at, statErr))
              /\ IF ex.err # "nil"
                 THEN ReturnErr(<<"failed to parse device size",
                                  "failed to discover device type">>)
                 ELSE IF ex.b THEN ReturnDevice(typ)
                 ELSE IF next = "ret" THEN ReturnDevice(TypeUnknown)
                 ELSE pc' = next /\ ret' = ret
    /\ UNCHANGED <<tree, call, paths, idx, ds, name, sysfsPath, size, out, envSteps>>

\* discoverDeviceType that starts with the device marker
CheckMdDeviceFirst == CheckMarker("md", deviceName, TypeDisk, "dm")

CheckMd == CheckMarker("md", mdName, TypeRAID, "dm")

\* discoverDeviceType whose second check stats the device marker
CheckDmWrongPath == CheckMarker("dm", deviceName, TypeDeviceMapper, "device")

CheckDm == CheckMarker("dm", dmName, TypeDeviceMapper, "device")

CheckDevice == CheckMarker("device", deviceName, TypeDisk, "ret")

\* ------------------------------------------------------------------------
\* NewDevicesFromPaths and ListDevices
\* ------------------------------------------------------------------------
\* the names root.Readdirnames(-1) can return: the entries, in any order
RECURSIVE Listings(_)
Listings(S) ==
    IF S = {} THEN {<<>>}
    ELSE UNION { { <<n>> \o l : l \in Listings(S \ {n}) } : n \in S }

\* ListDevices up to its call of NewDevicesFromPaths
ListDevices ==
    /\ pc = "call"
    /\ call = "ListDevices"
    /\ \E openFault \in {"nil"} \cup Faults, readFault \in {"nil"} \cup Faults :
          IF openFault # "nil"
          THEN /\ out' = [ds |-> <<>>, isNil |-> TRUE, err |-> <<"failed to open", openFault>>]
               /\ pc' = "done"
               /\ UNCHANGED <<paths, ds>>
          ELSE IF readFault # "nil"
          THEN /\ out' = [ds |-> <<>>, isNil |-> TRUE,
                          err |-> <<"failed to read directory", readFault>>]
               /\ pc' = "done"
               /\ UNCHANGED <<paths, ds>>
          ELSE /\ paths' \in Listings({n \in DevNames : tree[n].present})
               /\ ds' = <<>>
               /\ pc' = "loop"
               /\ out' = out
    /\ UNCHANGED <<tree, call, idx, name, sysfsPath, size, ret, trace, envSteps>>

\* NewDevicesFromPaths: ds := make([]Device, 0, len(paths))
FromPaths ==
    /\ pc = "call"
    /\ call = "NewDevicesFromPaths"
    /\ ds' = <<>>
    /\ pc' = "loop"
    /\ UNCHANGED <<tree, call, paths, idx, name, sysfsPath, size, ret, out, trace, envSteps>>

\* for _, p := range paths { d, err := NewDevice(p) ...: the call
LoopCall ==
    /\ pc = "loop"
    /\ idx <= Len(paths)
    /\ name' = Base(paths[idx])
    /\ sysfsPath' = Join(sysfsBlockRoot, Base(paths[idx]))
    /\ size' = U64Zero
    /\ ret' = NoRet
    /\ trace' = <<[ev |-> "call", res |-> "nil",
                   snap |-> EntryAt(tree, Join(sysfsBlockRoot, Base(paths[idx])))]>>
    /\ pc' = "stat"
    /\ UNCHANGED <<tree, call, paths, idx, ds, out, envSteps>>

\* a loop that returns what it built so far along with the error
LoopReturnPartial ==
    /\ pc = "ret"
    /\ IF ret.err # <<>>
       THEN /\ out' = [ds |-> ds, isNil |-> FALSE,
                       err |-> <<"failed to create disk">> \o ret.err]
            /\ pc' = "done"
            /\ UNCHANGED <<ds, idx>>
       ELSE /\ ds' = Append(ds, ret.dev)
            /\ idx' = idx + 1
            /\ pc' = "loop"
            /\ out' = out
    /\ UNCHANGED <<tree, call, paths, name, sysfsPath, size, ret, trace, envSteps>>

\* ... if err != nil { return nil, Wrap } ; ds = append(ds, *d) }
LoopReturn ==
    /\ pc = "ret"
    /\ IF ret.err # <<>>
       THEN /\ out' = [ds |-> <<>>, isNil |-> TRUE,
                       err |-> <<"failed to create disk">> \o ret.err]
            /\ pc' = "done"
            /\ UNCHANGED <<ds, idx>>
       ELSE /\ ds' = Append(ds, ret.dev)
            /\ idx' = idx + 1
            /\ pc' = "loop"
            /\ out' = out
    /\ UNCHANGED <<tree, call, paths, name, sysfsPath, size, ret, trace, envSteps>>

\* return ds, nil
LoopEnd ==
    /\ pc = "loop"
    /\ idx > Len(paths)
    /\ out' = [ds |-> ds, isNil |-> FALSE, err |-> <<>>]
    /\ pc' = "done"
    /\ UNCHANGED <<tree, call, paths, idx, ds, name, sysfsPath, size, ret, trace, envSteps>>

\* ------------------------------------------------------------------------
\* Other actors on the live tree (hot-unplug, resize, re-assembly)
\* ------------------------------------------------------------------------
EnvChange(t) ==
    /\ pc \in {"stat", "read", "md", "dm", "device"}
    /\ envSteps < MaxEnvSteps
    /\ t # tree
    /\ tree' = t
    /\ envSteps' = envSteps + 1
    /\ trace' = IF EntryAt(t, sysfsPath) # EntryAt(tree, sysfsPath)
                THEN Append(trace, [ev |-> "env", res |-> "nil", snap |-> EntryAt(t, sysfsPath)])
                ELSE trace
    /\ UNCHANGED <<call, paths, pc, idx, ds, name, sysfsPath, size, ret, out>>

EnvRemove ==
    \E n \in DevNames :
        /\ tree[n].present
        /\ EnvChange([tree EXCEPT ![n] = NoEntry])

EnvSetSize ==
    \E n \in DevNames, c \in EnvSizeContents :
        /\ tree[n].present
        /\ EnvChange([tree EXCEPT ![n].size = c])

EnvSetMarker ==
    \E n \in DevNames :
        /\ tree[n].present
        /\ \/ EnvChange([tree EXCEPT ![n].md = ~tree[n].md])
           \/ EnvChange([tree EXCEPT ![n].dm = ~tree[n].dm])
           \/ EnvChange([tree EXCEPT ![n].device = ~tree[n].device])

\* ------------------------------------------------------------------------
\* GetAttributes
\* ------------------------------------------------------------------------
NoAttributes == [UUID |-> <<>>, Type |-> <<>>, Label |-> <<>>]

\* the switch on key
SetAttribute(attrs, key, value) ==
    IF key = attributeUUIDKey THEN [attrs EXCEPT !.UUID = value]
    ELSE IF key = attributeLabelKey THEN [attrs EXCEPT !.Label = value]
    ELSE IF key = attributeTypeKey THEN [attrs EXCEPT !.Type = value]
    ELSE attrs

\* the loop over lines; kv[1] of a one-element kv is a run-time panic
RECURSIVE ParseLines(_, _, _)
ParseLines(lines, k, attrs) ==
    IF k > Len(lines) THEN [kind |-> "ok", attrs |-> attrs, err |-> <<>>]
    ELSE IF lines[k] = <<>> THEN ParseLines(lines, k + 1, attrs)
    ELSE LET kv == SplitN2(lines[k], "=")
         IN  IF Len(kv) < 2
             THEN [kind |-> "panic", attrs |-> NoAttributes,
                   err |-> <<"index out of range [1] with length 1">>]
             ELSE ParseLines(lines, k + 1, SetAttribute(attrs, kv[1], kv[2]))

GetAttributes ==
    /\ attrsRet.kind = "none"
    /\ attrsRet' =
          IF blkidErr # "nil"
          THEN [kind |-> "err", attrs |-> NoAttributes,
                err |-> <<"failed to exec blkid", blkidErr>>]
          ELSE ParseLines(Split(output, "\n"), 1, NoAttributes)
    /\ UNCHANGED <<output, blkidErr>>

\* ------------------------------------------------------------------------
\* DiskSlice as sort.Interface, and the sorts of package sort that drive it
\* ------------------------------------------------------------------------
DiskLen(d) == Len(d)

\* Less written with <= instead of <
LessOrEqual(d, i, j) == ~U64Less(d[j].Size, d[i].Size)

Less(d, i, j) == U64Less(d[i].Size, d[j].Size)

Swap(d, i, j) == [d EXCEPT ![i] = d[j], ![j] = d[i]]

\* insertionSort's inner loop: for j := i; j > a && Less(j, j-1); j--
RECURSIVE InsertDown(_, _)
InsertDown(d, j) ==
    IF j > 1 /\ Less(d, j, j - 1) THEN InsertDown(Swap(d, j, j - 1), j - 1) ELSE d

RECURSIVE InsertionSortFrom(_, _)
InsertionSortFrom(d, i) ==
    IF i > DiskLen(d) THEN d ELSE InsertionSortFrom(InsertDown(d, i), i + 1)

InsertionSort(d) == InsertionSortFrom(d, 2)

\* quickSort's pass with gap 6 on a range of at most 12 elements
RECURSIVE ShellPassFrom(_, _)
ShellPassFrom(d, i) ==
    IF i > DiskLen(d) THEN d
    ELSE ShellPassFrom(IF Less(d, i, i - 6) THEN Swap(d, i, i - 6) ELSE d, i + 1)

\* sort.Sort up to Go 1.18 (quickSort) on at most 12 elements
QuickSortSmall(d) == IF DiskLen(d) > 1 THEN InsertionSort(ShellPassFrom(d, 7)) ELSE d

SortStart ==
    /\ sortedBy = "none"
    /\ DiskLen(disks) <= 12

\* sort.Sort(ds), Go toolchains up to 1.18
SortQuick ==
    /\ SortStart
    /\ disks' = QuickSortSmall(disks)
    /\ sortedBy' = "sort.Sort (quickSort)"
    /\ UNCHANGED input

\* sort.Sort(ds), Go toolchains from 1.19: pdqsort sorts at most 12 elements
\* by insertion
SortPdq ==
    /\ SortStart
    /\ disks' = InsertionSort(disks)
    /\ sortedBy' = "sort.Sort (pdqsort)"
    /\ UNCHANGED input

\* sort.Stable(ds): one insertion-sorted block up to 20 elements
SortStable ==
    /\ SortStart
    /\ disks' = InsertionSort(disks)
    /\ sortedBy' = "sort.Stable"
    /\ UNCHANGED input

\* ------------------------------------------------------------------------
\* Specification of device discovery
\* ------------------------------------------------------------------------
DevicePaths ==
    { sda,
      <<"/","d","e","v","/","s","d","a">>,
      <<"s","d","a","/">>,
      sdb,
      <<>> }

RECURSIVE SeqsUpTo(_, _)
SeqsUpTo(S, n) ==
    IF n = 0 THEN {<<>>}
    ELSE LET shorter == SeqsUpTo(S, n - 1)
         IN  shorter \cup { Append(q, x) : q \in {r \in shorter : Len(r) = n - 1}, x \in S }

AttrIdle ==
    /\ output = <<>>
    /\ blkidErr = "nil"
    /\ attrsRet = [kind |-> "idle", attrs |-> NoAttributes, err |-> <<>>]

SortIdle ==
    /\ disks = <<>>
    /\ input = <<>>
    /\ sortedBy = "none"

DevInitLocals ==
    /\ pc = "call"
    /\ idx = 1
    /\ ds = <<>>
    /\ name = <<>>
    /\ sysfsPath = <<>>
    /\ size = U64Zero
    /\ ret = NoRet
    /\ out = NoOut
    /\ trace = <<>>
    /\ envSteps = 0

\* an entry for the second device
OtherEntry ==
    [present |-> TRUE, size |-> <<"1","6","\n">>, md |-> FALSE, dm |-> FALSE, device |-> TRUE]

\* Discovery of one device on a tree that nobody changes meanwhile: any size
\* file and any markers for sda, any form of path, any system call may fail.
Init ==
    /\ tree \in [DevNames -> {NoEntry, OtherEntry} \cup Entries(SizeContents)]
    /\ tree[sdb] \in {NoEntry, OtherEntry}
    /\ \/ call = "NewDevicesFromPaths" /\ paths \in { <<p>> : p \in DevicePaths }
       \/ call = "ListDevices" /\ paths = <<>>
    /\ DevInitLocals
    /\ AttrIdle
    /\ SortIdle

Next ==
    \/ (ListDevices /\ UNCHANGED <<attrVars, sortVars>>)
    \/ (FromPaths /\ UNCHANGED <<attrVars, sortVars>>)
    \/ (LoopCall /\ UNCHANGED <<attrVars, sortVars>>)
    \/ (StatEntry /\ UNCHANGED <<attrVars, sortVars>>)
    \/ (ReadSize /\ UNCHANGED <<attrVars, sortVars>>)
    \/ (CheckMd /\ UNCHANGED <<attrVars, sortVars>>)
    \/ (CheckDm /\ UNCHANGED <<attrVars, sortVars>>)
    \/ (CheckDevice /\ UNCHANGED <<attrVars, sortVars>>)
    \/ (LoopReturn /\ UNCHANGED <<attrVars, sortVars>>)
    \/ (LoopEnd /\ UNCHANGED <<attrVars, sortVars>>)

Spec == Init /\ [][Next]_vars

\* Discovery from a list of paths, or of all devices.
ListEntries ==
    { NoEntry,
      [present |-> TRUE, size |-> <<"8","\n">>, md |-> TRUE, dm |-> FALSE, device |-> TRUE],
      [present |-> TRUE, size |-> <<"1","2","a","\n">>, md |-> FALSE, dm |-> FALSE, device |-> FALSE] }

InitList ==
    /\ tree \in [DevNames -> ListEntries \cup {OtherEntry}]
    /\ tree[sda] \in ListEntries
    /\ tree[sdb] \in {NoEntry, OtherEntry}
    /\ \/ call = "NewDevicesFromPaths" /\ paths \in SeqsUpTo(DevicePaths, MaxPaths)
       \/ call = "ListDevices" /\ paths = <<>>
    /\ DevInitLocals
    /\ AttrIdle
    /\ SortIdle

SpecList == InitList /\ [][Next]_vars

\* Discovery of one device while other actors change the tree.
InitLive ==
    /\ tree \in [DevNames -> {NoEntry} \cup Entries({<<"8","\n">>})]
    /\ tree[sdb] = NoEntry
    /\ call = "NewDevicesFromPaths"
    /\ paths = <<sda>>
    /\ DevInitLocals
    /\ AttrIdle
    /\ SortIdle

OtherActors ==
    \/ EnvRemove
    \/ EnvSetSize
    \/ EnvSetMarker

NextLive ==
    \/ (FromPaths /\ UNCHANGED <<attrVars, sortVars>>)
    \/ (LoopCall /\ UNCHANGED <<attrVars, sortVars>>)
    \/ (StatEntry /\ UNCHANGED <<attrVars, sortVars>>)
    \/ (ReadSize /\ UNCHANGED <<attrVars, sortVars>>)
    \/ (CheckMd /\ UNCHANGED <<attrVars, sortVars>>)
    \/ (CheckDm /\ UNCHANGED <<attrVars, sortVars>>)
    \/ (CheckDevice /\ UNCHANGED <<attrVars, sortVars>>)
    \/ (LoopReturn /\ UNCHANGED <<attrVars, sortVars>>)
    \/ (LoopEnd /\ UNCHANGED <<attrVars, sortVars>>)
    \/ (OtherActors /\ UNCHANGED <<attrVars, sortVars>>)

SpecLive == InitLive /\ [][NextLive]_vars

DevIdle ==
    /\ tree = [n \in DevNames |-> NoEntry]
    /\ call = "none"
    /\ paths = <<>>
    /\ pc = "done"
    /\ idx = 1
    /\ ds = <<>>
    /\ name = <<>>
    /\ sysfsPath = <<>>
    /\ size = U64Zero
    /\ ret = NoRet
    /\ out = NoOut
    /\ trace = <<>>
    /\ envSteps = 0

\* ------------------------------------------------------------------------
\* Specification of GetAttributes
\* ------------------------------------------------------------------------
AttrLines ==
    { <<"U","U","I","D","=","a","b","c","-","1","2","3">>,
      <<"T","Y","P","E","=","e","x","t","4">>,
      <<"L","A","B","E","L","=">>,
      <<"U","U","I","D","=","a","=","b">>,
      <<"P","T","T","Y","P","E","=","g","p","t">>,
      <<"g","a","r","b","a","g","e">>,
      <<>> }

RECURSIVE Unlines(_)
Unlines(ls) ==
    IF ls = <<>> THEN <<>> ELSE Head(ls) \o <<"\n">> \o Unlines(Tail(ls))

InitAttr ==
    /\ \E ls \in SeqsUpTo(AttrLines, MaxLines) :
          \/ output = Unlines(ls)
          \/ output = TrimRight(Unlines(ls), "\n")
    /\ blkidErr \in {"nil", "exit status 2"}
    /\ attrsRet = [kind |-> "none", attrs |-> NoAttributes, err |-> <<>>]
    /\ DevIdle
    /\ SortIdle

NextAttr == GetAttributes /\ UNCHANGED <<devVars, sortVars>>

SpecAttr == InitAttr /\ [][NextAttr]_vars

\* ------------------------------------------------------------------------
\* Specification of the size ordering
\* ------------------------------------------------------------------------
SortSizes == { <<10, 0, 0, 0>>, <<50, 0, 0, 0>>, <<100, 0, 0, 0>> }

Letters == <<"a","b","c","d","e","f","g","h","i","j","k","l">>

\* disks with distinct names, as one discovery pass returns them
DiskSlices ==
    { [k \in 1..Len(sz) |-> [Name |-> <<"s","d",Letters[k]>>, Size |-> sz[k]]] :
        sz \in SeqsUpTo(SortSizes, MaxLen) }

InitSort ==
    /\ disks \in DiskSlices
    /\ input = disks
    /\ sortedBy = "none"
    /\ DevIdle
    /\ AttrIdle

NextSort ==
    \/ (SortQuick /\ UNCHANGED <<devVars, attrVars>>)
    \/ (SortPdq /\ UNCHANGED <<devVars, attrVars>>)
    \/ (SortStable /\ UNCHANGED <<devVars, attrVars>>)

SpecSort == InitSort /\ [][NextSort]_vars

\* ------------------------------------------------------------------------
\* Vocabulary of the properties
\* ------------------------------------------------------------------------
\* The error kinds of the design, read off the root cause of an error
\* (errors.Cause): the last element of the chain of messages.
ErrorKind(err) ==
    LET cause == err[Len(err)]
    IN  IF cause = "device does not exist" THEN "NotFoundError"
        ELSE IF cause \in {"ErrSyntax", "ErrRange"} THEN "ParseError"
        ELSE IF cause \in {"ENOENT", "EACCES", "EISDIR", "failed to discover device type"}
             THEN "IOError"
        ELSE "other"

Returned == pc = "ret"

ReturnedDevice == pc = "ret" /\ ret.err = <<>>

Failed(kind) == ret.dev = NilDevice /\ ret.err # <<>> /\ ErrorKind(ret.err) = kind

Reads == {"stat", "size", "md", "dm", "device"}

MarkerChecks == {"md", "dm", "device"}

\* the first-match table of the design, on the markers of one entry
Category(e) ==
    IF e.md THEN TypeRAID
    ELSE IF e.dm THEN TypeDeviceMapper
    ELSE IF e.device THEN TypeDisk
    ELSE TypeUnknown

NoFault == \A k \in 1..Len(trace) : trace[k].res \in {"nil", "ENOENT"}

Target == EntryAt(tree, sysfsPath)

\* ------------------------------------------------------------------------
\* C1: when the entry exists and every existence check succeeds, NewDevice
\* assigns the category of the first marker present in the order md -> RAID,
\* dm -> DeviceMapper, device -> Disk, and Unknown when there is none; a
\* valid size file then always gives a Device.
\* ------------------------------------------------------------------------
C1_FirstMatchWins ==
    (Returned /\ Target.present /\ NoFault) =>
        /\ ParseUint(Trim(Target.size, "\n")).err = "nil" => ret.err = <<>>
        /\ ret.err = <<>> =>
              /\ Target.md => ret.dev.Type = TypeRAID
              /\ (~Target.md /\ Target.dm) => ret.dev.Type = TypeDeviceMapper
              /\ (~Target.md /\ ~Target.dm /\ Target.device) => ret.dev.Type = TypeDisk
              /\ (~Target.md /\ ~Target.dm /\ ~Target.device) => ret.dev.Type = TypeUnknown

C1_Witness ==
    /\ ReturnedDevice
    /\ NoFault
    /\ Target.md /\ Target.device /\ ~Target.dm
    /\ ret.dev.Type = TypeRAID

\* ------------------------------------------------------------------------
\* C2: for every sector count s that ParseUint accepts, the Device returned
\* has Size equal to the arithmetic product s * 512.
\* ------------------------------------------------------------------------
C2_SizeIsProduct ==
    (ReturnedDevice /\ NoFault /\ Target.present) =>
        LET s == ParseUint(Trim(Target.size, "\n")).val
            product == MulAdd(s, 512, 0)
        IN  product.carry = 0 /\ ret.dev.Size = product.limbs

\* ------------------------------------------------------------------------
\* C3: a marker check that fails with an error other than "does not exist"
\* ends NewDevice with an IOError and no Device, and no further check is
\* made; a check answered "does not exist" is followed by the next rule.
\* ------------------------------------------------------------------------
C3_MarkerErrorAborts ==
    Returned =>
        \A k \in 1..Len(trace) :
            /\ (trace[k].ev \in MarkerChecks /\ trace[k].res \notin {"nil", "ENOENT"}) =>
                  /\ Failed("IOError")
                  /\ k = Len(trace)
            /\ (trace[k].ev = "md" /\ trace[k].res = "ENOENT") =>
                  \E m \in (k + 1)..Len(trace) : trace[m].ev = "dm"
            /\ (trace[k].ev = "dm" /\ trace[k].res = "ENOENT") =>
                  \E m \in (k + 1)..Len(trace) : trace[m].ev = "device"

C3_Witness ==
    /\ Returned
    /\ trace[Len(trace)].ev = "dm"
    /\ trace[Len(trace)].res = "EACCES"
    /\ Failed("IOError")

\* ------------------------------------------------------------------------
\* C4: if the entry exists when NewDevice checks it and another actor
\* removes it before NewDevice has finished its reads, NewDevice fails with
\* an IOError and returns no Device.
\* ------------------------------------------------------------------------
RemovedDuringReads ==
    \E k, m, r \in 1..Len(trace) :
        /\ k < m /\ m < r
        /\ trace[k].ev = "stat" /\ trace[k].res = "nil" /\ trace[k].snap.present
        /\ trace[m].ev = "env" /\ ~trace[m].snap.present
        /\ trace[r].ev \in Reads

C4_VanishedIsIOError ==
    (Returned /\ RemovedDuringReads) => Failed("IOError")

\* ------------------------------------------------------------------------
\* C5: NewDevicesFromPaths and ListDevices return either an error and a nil
\* slice, or no error and one Device per path, in the order of the paths; a
\* failed NewDevice makes the whole call fail, whatever was built before.
\* ------------------------------------------------------------------------
C5_AllOrNothing ==
    pc = "done" =>
        /\ ret.err # <<>> => out.err # <<>>
        /\ out.err # <<>> => (out.isNil /\ out.ds = <<>>)
        /\ out.err = <<>> =>
              /\ ~out.isNil
              /\ Len(out.ds) = Len(paths)
              /\ \A k \in 1..Len(paths) :
                    /\ out.ds[k] # NilDevice
                    /\ out.ds[k].Name = Base(paths[k])

C5_Witness ==
    /\ pc = "done"
    /\ Len(paths) = 2
    /\ Len(ds) = 1
    /\ out.err # <<>>
    /\ out.isNil

\* ------------------------------------------------------------------------
\* C6: when <root>/<base name of the input> does not exist (and os.Stat says
\* so), NewDevice fails with NotFoundError, returns no Device and makes no
\* size read and no marker check.
\* ------------------------------------------------------------------------
C6_AbsentIsNotFound ==
    (Returned /\ ~PathExists(tree, Join(sysfsBlockRoot, Base(paths[idx])))
              /\ \E k \in 1..Len(trace) : trace[k].ev = "stat" /\ trace[k].res = "ENOENT") =>
        /\ Failed("NotFoundError")
        /\ ret.err = <<"device does not exist">>
        /\ \A k \in 1..Len(trace) : trace[k].ev \notin {"size", "md", "dm", "device"}

C6_Witness ==
    /\ Returned
    /\ paths[idx] = <<"/","d","e","v","/","s","d","a">>
    /\ ~tree[sda].present
    /\ Failed("NotFoundError")
    /\ Len(trace) = 2

\* ------------------------------------------------------------------------
\* C7: when blkid succeeds and its output has a non-empty line without '=',
\* GetAttributes fails with a ParseError and returns no Attributes.
\* ------------------------------------------------------------------------
HasLineWithoutSeparator ==
    \E a, b \in 1..Len(output) :
        /\ a <= b
        /\ (a = 1 \/ output[a - 1] = "\n")
        /\ (b = Len(output) \/ output[b + 1] = "\n")
        /\ \A k \in a..b : output[k] \notin {"\n", "="}

C7_MalformedLineIsParseError ==
    (attrsRet.kind # "none" /\ blkidErr = "nil" /\ HasLineWithoutSeparator) =>
        /\ attrsRet.kind = "err"
        /\ ErrorKind(attrsRet.err) = "ParseError"
        /\ attrsRet.attrs = NoAttributes

\* ------------------------------------------------------------------------
\* C8: sorting a DiskSlice through Len/Less/Swap gives the same disks in
\* ascending order of Size, disks of equal Size keeping their input order.
\* ------------------------------------------------------------------------
Position(d, n) == CHOOSE k \in 1..Len(d) : d[k].Name = n

SameDisks ==
    /\ Len(disks) = Len(input)
    /\ \A k \in 1..Len(input) : \E m \in 1..Len(disks) : disks[m] = input[k]

Ascending ==
    \A i, j \in 1..Len(disks) :
        i < j => ~U64Less(disks[j].Size, disks[i].Size)

Stable ==
    \A i, j \in 1..Len(disks) :
        (i < j /\ disks[i].Size = disks[j].Size) =>
            Position(input, disks[i].Name) < Position(input, disks[j].Name)

C8_SortIsStable ==
    sortedBy # "none" => (SameDisks /\ Ascending /\ Stable)

\* C8 as amended: the same disks in ascending order of Size after any of the
\* sorts; equal sizes keep their input order after sort.Stable, and after
\* sort.Sort for slices of at most 6 disks (so for [100, 50, 100, 10]).
C8_AscendingStableWithSortStable ==
    sortedBy # "none" =>
        /\ SameDisks
        /\ Ascending
        /\ (sortedBy = "sort.Stable" \/ Len(input) <= 6) => Stable

C8_Witness ==
    /\ sortedBy = "sort.Stable"
    /\ Len(input) = 4
    /\ input[1].Size = <<100, 0, 0, 0>> /\ input[2].Size = <<50, 0, 0, 0>>
    /\ input[3].Size = <<100, 0, 0, 0>> /\ input[4].Size = <<10, 0, 0, 0>>
    /\ disks = <<input[4], input[2], input[1], input[3]>>

\* ------------------------------------------------------------------------
\* C9: every Device returned is a snapshot of one instant: at some instant
\* of the call the tree held both the returned size and markers giving the
\* returned category.  Stated for calls during which the entry is never
\* removed (removal is the matter of C4).
\* ------------------------------------------------------------------------
SnapshotOf(e) ==
    /\ e.present
    /\ ParseUint(Trim(e.size, "\n")).err = "nil"
    /\ ret.dev.Size = MulAdd(ParseUint(Trim(e.size, "\n")).val, 512, 0).limbs
    /\ ret.dev.Type = Category(e)

C9_SingleInstant ==
    (ReturnedDevice /\ \A k \in 1..Len(trace) : trace[k].snap.present) =>
        \E k \in 1..Len(trace) : SnapshotOf(trace[k].snap)

\* C9 as amended: the size is that of the size file at the moment it was
\* read, the category is the first match over the marker checks, each taken
\* at its own moment; the Device is a snapshot of one instant whenever the
\* entry does not change between the size read and the last marker check.
EventAt(ev) == trace[CHOOSE k \in 1..Len(trace) : trace[k].ev = ev]

Checked(ev) == \E k \in 1..Len(trace) : trace[k].ev = ev

C9_EachReadAtItsOwnInstant ==
    ReturnedDevice =>
        /\ Checked("size") /\ Checked("md")
        /\ ret.dev.Size =
              MulAdd(ParseUint(Trim(EventAt("size").snap.size, "\n")).val, 512, 0).limbs
        /\ ret.dev.Type = TypeRAID => EventAt("md").snap.md
        /\ ret.dev.Type # TypeRAID => (~EventAt("md").snap.md /\ Checked("dm"))
        /\ ret.dev.Type = TypeDeviceMapper => EventAt("dm").snap.dm
        /\ ret.dev.Type \in {TypeDisk, TypeUnknown} =>
              (~EventAt("dm").snap.dm /\ Checked("device"))
        /\ ret.dev.Type = TypeDisk => EventAt("device").snap.device
        /\ ret.dev.Type = TypeUnknown => ~EventAt("device").snap.device
        /\ (\A k \in 1..Len(trace) :
               (trace[k].ev = "env" =>
                   \E m \in (k + 1)..Len(trace) : trace[m].ev = "size"))
           => SnapshotOf(trace[Len(trace)].snap)

C9_Witness ==
    /\ ReturnedDevice
    /\ \E k, m \in 1..Len(trace) :
          /\ k < m
          /\ trace[k].ev = "size"
          /\ trace[m].ev = "env"
          /\ trace[m].snap.present
    /\ ret.dev.Type = TypeDisk

\* ------------------------------------------------------------------------
\* C10: if the os.Stat of <root>/<name> fails with an error other than
\* "does not exist", NewDevice fails with an IOError and returns no Device.
\* ------------------------------------------------------------------------
C10_StatErrorIsIOError ==
    Returned =>
        \A k \in 1..Len(trace) :
            (trace[k].ev = "stat" /\ trace[k].res \notin {"nil", "ENOENT"}) =>
                Failed("IOError")
==========================================================================
